---- MODULE Spec2Model ----
(***************************************************************************)
(* PEdit: the tabbed canvas workspace of src/pedit/ui/image_pane.py.       *)
(*                                                                         *)
(* The state is the state of one ImagePane: its _ImageCanvasTabWidget (a   *)
(* QTabWidget: a page stack and a tab bar, each with its own current       *)
(* index), the canvases' aspect ratios, and the record of what the last    *)
(* handler delivered to listeners.  Positions are 0-based as in the code;  *)
(* a label is the sequence of its characters, with the word "Untitled"     *)
(* kept as one token.                                                      *)
(***************************************************************************)
EXTENDS Integers, Sequences, FiniteSets, TLC

VARIABLES
    stack,        \* QTabWidget's pages, in order: PLUS_PAGE or a canvas id
    stackIndex,   \* the page stack's current index (currentWidget())
    bar,          \* the tab bar's tabs, in order: [text, btn]
    barIndex,     \* the tab bar's current index (currentIndex())
    canvases,     \* canvas id -> ImageCanvas._aspect
    adjusting,    \* _adjusting_tab_order
    blockedSelf,  \* QTabWidget.signalsBlocked()
    blockedTb,    \* QTabBar.signalsBlocked()
    notes,        \* currentChanged notifications delivered by the last handler
    clicks,       \* plusClicked emissions of the last handler
    ret,          \* value returned by insertCanvasTab in the last handler, or -1
    last,         \* the last handler that ran; whether it passed its guards
    paneReady,    \* ImagePane.__init__ has added the initial tab
    dialog,       \* the NewCanvasDialog being shown, if any
    imageCanvas,  \* one ImageCanvas on its own: _aspect and its geometry
    menu          \* the menu bar built by MainMenu.create_menu

vars == <<stack, stackIndex, bar, barIndex, canvases, adjusting, blockedSelf,
          blockedTb, notes, clicks, ret, last, paneReady, dialog,
          imageCanvas, menu>>

----------------------------------------------------------------------------
(* Bounds of the model *)

MaxDocs == 2

----------------------------------------------------------------------------
(* Program constants *)

PLUS_PAGE == 0

PlusText == <<"+">>

DEFAULT_ASPECTS == << <<1, 1>>, <<3, 2>>, <<4, 3>>, <<5, 4>>, <<16, 9>>, <<9, 16>> >>

DefaultAspect == <<1, 1>>

Base == <<"Untitled">>

Digits == <<"1", "2", "3", "4", "5", "6", "7", "8", "9">>

----------------------------------------------------------------------------
(* Lists with 0-based positions *)

At(s, i) == s[i + 1]

ValidIndex(s, i) == 0 <= i /\ i < Len(s)

ListInsert(s, i, x) == SubSeq(s, 1, i) \o <<x>> \o SubSeq(s, i + 1, Len(s))

ListRemove(s, i) == SubSeq(s, 1, i) \o SubSeq(s, i + 2, Len(s))

ListMove(s, from, to) == ListInsert(ListRemove(s, from), to, At(s, from))

Min(a, b) == IF a <= b THEN a ELSE b

Max(a, b) == IF a >= b THEN a ELSE b

----------------------------------------------------------------------------
(* Strings *)

RECURSIVE LStrip(_)
LStrip(s) == IF s # <<>> /\ Head(s) = " " THEN LStrip(Tail(s)) ELSE s

RECURSIVE RStrip(_)
RStrip(s) ==
    IF s # <<>> /\ s[Len(s)] = " " THEN RStrip(SubSeq(s, 1, Len(s) - 1)) ELSE s

Strip(s) == RStrip(LStrip(s))

FormatLabel(base, n) == base \o <<" ", Digits[n]>>

----------------------------------------------------------------------------
(* The widget state the operators below transform.  notes, clicks, ret,    *)
(* moves and passes record what one handler did: the notifications it      *)
(* delivered, the plusClicked emissions, the value returned, the tab moves *)
(* carried out (with the value of _adjusting_tab_order at the time) and    *)
(* the calls of _onTabMoved that got past its test of the flag.            *)

Self ==
    [stack |-> stack, stackIndex |-> stackIndex, bar |-> bar,
     barIndex |-> barIndex, canvases |-> canvases, adjusting |-> adjusting,
     blockedSelf |-> blockedSelf, blockedTb |-> blockedTb,
     notes |-> <<>>, clicks |-> 0, ret |-> -1, moves |-> <<>>, passes |-> 0]

Count(w) == Len(w.bar)

Widget(w, i) == IF ValidIndex(w.stack, i) THEN At(w.stack, i) ELSE -1

TabText(w, i) == IF ValidIndex(w.bar, i) THEN At(w.bar, i).text ELSE <<>>

IsImageCanvas(p) == p \in Nat /\ p >= 1

IndexOf(w, p) ==
    IF \E i \in 0..(Len(w.stack) - 1) : At(w.stack, i) = p
    THEN CHOOSE i \in 0..(Len(w.stack) - 1) :
             At(w.stack, i) = p /\ \A j \in 0..(i - 1) : At(w.stack, j) # p
    ELSE -1

----------------------------------------------------------------------------
(* Listeners of QTabWidget.currentChanged *)

OnCurrentChanged(w, index) ==
    [w EXCEPT !.notes = Append(@, [index |-> index,
                                   page |-> Widget(w, index),
                                   count |-> Count(w),
                                   adjusting |-> w.adjusting,
                                   plusLast |-> Widget(w, Count(w) - 1) = PLUS_PAGE])]

EmitCurrentChanged(w, index) ==
    IF w.blockedSelf THEN w ELSE OnCurrentChanged(w, index)

----------------------------------------------------------------------------
(* The host toolkit: page stack *)

StackSetCurrentIndex(w, index) ==
    IF ValidIndex(w.stack, index) THEN [w EXCEPT !.stackIndex = index] ELSE w

StackInsertPos(w, index) ==
    IF Min(index, Len(w.stack)) < 0 THEN Len(w.stack) ELSE Min(index, Len(w.stack))

StackInsertWidget(w, index, page) ==
    LET i == StackInsertPos(w, index)
    IN  [w EXCEPT !.stack = ListInsert(@, i, page),
                  !.stackIndex = IF @ < 0 THEN i
                                 ELSE IF i <= @ THEN @ + 1 ELSE @]

StackRemoveWidget(w, index) ==
    IF ~ValidIndex(w.stack, index) THEN w
    ELSE LET rest == ListRemove(w.stack, index)
         IN  [w EXCEPT !.stack = rest,
                       !.stackIndex =
                           IF index = @
                           THEN (IF Len(rest) > 0
                                 THEN (IF index = Len(rest) THEN index - 1 ELSE index)
                                 ELSE -1)
                           ELSE IF index < @ THEN @ - 1 ELSE @]

----------------------------------------------------------------------------
(* The host toolkit: tab bar and tab widget *)

ShowTab(w, index) ==
    EmitCurrentChanged(StackSetCurrentIndex(w, index), index)

BarEmitCurrentChanged(w, index) ==
    IF w.blockedTb THEN w ELSE ShowTab(w, index)

BarSetCurrentIndex(w, index) ==
    IF w.barIndex = index \/ ~ValidIndex(w.bar, index) THEN w
    ELSE BarEmitCurrentChanged([w EXCEPT !.barIndex = index], index)

SetCurrentIndex(w, index) == BarSetCurrentIndex(w, index)

BarInsertTab(w, index, text) ==
    LET i  == IF ValidIndex(w.bar, index) THEN index ELSE Len(w.bar)
        w1 == [w EXCEPT !.bar = ListInsert(@, i, [text |-> text, btn |-> TRUE])]
    IN  IF Len(w1.bar) = 1 THEN BarSetCurrentIndex(w1, i)
        ELSE IF i <= w1.barIndex THEN [w1 EXCEPT !.barIndex = @ + 1]
        ELSE w1

InsertTab(w, index, page, text) ==
    BarInsertTab(StackInsertWidget(w, index, page), StackInsertPos(w, index), text)

AddTab(w, page, text) == InsertTab(w, -1, page, text)

BarRemoveTab(w, index) ==
    IF ~ValidIndex(w.bar, index) THEN w
    ELSE LET w1 == [w EXCEPT !.bar = ListRemove(@, index)]
         IN  IF index = w.barIndex
             THEN LET w2 == [w1 EXCEPT !.barIndex = -1]
                  IN  IF Len(w2.bar) > 0
                      THEN BarSetCurrentIndex(w2, Max(0, Min(index, Len(w2.bar) - 1)))
                      ELSE BarEmitCurrentChanged(w2, -1)
             ELSE IF index < w.barIndex
             THEN BarSetCurrentIndex(w1, w1.barIndex - 1)
             ELSE w1

RemoveTab(w, index) ==
    IF Widget(w, index) = -1 THEN w
    ELSE BarRemoveTab(StackRemoveWidget(w, index), index)

SetTabText(w, index, text) ==
    IF ValidIndex(w.bar, index) THEN [w EXCEPT !.bar[index + 1].text = text] ELSE w

SetTabButton(w, index, btn) ==
    IF ValidIndex(w.bar, index) THEN [w EXCEPT !.bar[index + 1].btn = btn] ELSE w

CalculateNewPosition(from, to, index) ==
    IF index = from THEN to
    ELSE IF index >= Min(from, to) /\ index <= Max(from, to)
         THEN (IF from < to THEN index - 1 ELSE index + 1)
         ELSE index

StackTabMoved(w, from, to) ==
    StackInsertWidget(StackRemoveWidget(w, from), to, Widget(w, from))

----------------------------------------------------------------------------
(* _ImageCanvasTabWidget *)

PlusIndex(w) == IndexOf(w, PLUS_PAGE)

RECURSIVE MoveTab(_, _, _)

(* _onTabMoved without the corrective move *)
OnTabMoved_NoPin(w, from_index, to_index) == w

(* _onTabMoved without the test of _adjusting_tab_order *)
OnTabMoved_NoFlagCheck(w, from_index, to_index) ==
    LET w0 == [w EXCEPT !.passes = @ + 1]
        pi == PlusIndex(w)
        lastIdx == Count(w) - 1
    IN  IF pi = -1 THEN w0
        ELSE IF pi # lastIdx
             THEN [MoveTab([w0 EXCEPT !.adjusting = TRUE], pi, lastIdx)
                       EXCEPT !.adjusting = FALSE]
             ELSE w0

(* passes counts the calls that get past the test of the flag *)
OnTabMoved(w, from_index, to_index) ==
    IF w.adjusting THEN w
    ELSE LET w0 == [w EXCEPT !.passes = @ + 1]
             pi == PlusIndex(w)
             lastIdx == Count(w) - 1
         IN  IF pi = -1 THEN w0
             ELSE IF pi # lastIdx
                  THEN [MoveTab([w0 EXCEPT !.adjusting = TRUE], pi, lastIdx)
                            EXCEPT !.adjusting = FALSE]
                  ELSE w0

EmitTabMoved(w, from, to) ==
    IF w.blockedTb THEN w ELSE OnTabMoved(StackTabMoved(w, from, to), from, to)

MoveTab(w, from, to) ==
    IF from = to \/ ~ValidIndex(w.bar, from) \/ ~ValidIndex(w.bar, to) THEN w
    ELSE LET previousIndex == w.barIndex
             w1 == [w EXCEPT !.bar = ListMove(@, from, to),
                             !.barIndex = CalculateNewPosition(from, to, @),
                             !.moves = Append(@, [from |-> from, to |-> to,
                                                  adjusting |-> w.adjusting])]
             w2 == EmitTabMoved(w1, from, to)
         IN  IF previousIndex # w2.barIndex
             THEN BarEmitCurrentChanged(w2, w2.barIndex)
             ELSE w2

ConfigurePlusTab(w) ==
    LET pi == PlusIndex(w)
    IN  IF pi = -1 THEN w
        ELSE LET w1 == SetTabText(SetTabButton(w, pi, FALSE), pi, PlusText)
                 lastIdx == Count(w1) - 1
             IN  IF pi # lastIdx
                 THEN [MoveTab([w1 EXCEPT !.adjusting = TRUE], pi, lastIdx)
                           EXCEPT !.adjusting = FALSE]
                 ELSE w1

(* _ensurePlusTab adding a '+' page whether or not one exists *)
EnsurePlusTab_Always(w) == ConfigurePlusTab(AddTab(w, PLUS_PAGE, PlusText))

EnsurePlusTab(w) ==
    IF PlusIndex(w) = -1
    THEN ConfigurePlusTab(AddTab(w, PLUS_PAGE, PlusText))
    ELSE ConfigurePlusTab(w)

RealTabCount(w) ==
    Cardinality({i \in 0..(Count(w) - 1) :
                    Widget(w, i) # PLUS_PAGE /\ IsImageCanvas(Widget(w, i))})

(* insertCanvasTab appending the canvas instead of inserting it at the '+' index *)
InsertCanvasTab_Append(w, canvas, label) ==
    LET w1  == EnsurePlusTab(w)
        idx == StackInsertPos(w1, -1)
        w2  == AddTab(w1, canvas, label)
        w3  == SetCurrentIndex(w2, idx)
    IN  [ConfigurePlusTab(w3) EXCEPT !.ret = idx]

InsertCanvasTab(w, canvas, label) ==
    LET w1  == EnsurePlusTab(w)
        pi  == PlusIndex(w1)
        idx == IF pi # -1 THEN StackInsertPos(w1, pi) ELSE StackInsertPos(w1, -1)
        w2  == IF pi # -1 THEN InsertTab(w1, pi, canvas, label)
               ELSE AddTab(w1, canvas, label)
        w3  == SetCurrentIndex(w2, idx)
    IN  [ConfigurePlusTab(w3) EXCEPT !.ret = idx]

TabWidgetInit ==
    ConfigurePlusTab(
        AddTab([stack |-> <<>>, stackIndex |-> -1, bar |-> <<>>, barIndex |-> -1,
                canvases |-> [c \in {} |-> DefaultAspect], adjusting |-> FALSE,
                blockedSelf |-> FALSE, blockedTb |-> FALSE,
                notes |-> <<>>, clicks |-> 0, ret |-> -1,
                moves |-> <<>>, passes |-> 0],
               PLUS_PAGE, PlusText))

----------------------------------------------------------------------------
(* NewCanvasDialog *)

NewCanvasDialog(default_name) ==
    [name_edit |-> default_name,
     cards |-> [k \in 1..Len(DEFAULT_ASPECTS) |-> DEFAULT_ASPECTS[k] = <<1, 1>>],
     selected_ratio |-> <<1, 1>>]

(* aspectCardClicked leaving the other cards as they were *)
AspectCardClicked_KeepOthers(d, card) ==
    [d EXCEPT !.cards = [k \in DOMAIN @ |-> @[k] \/ k = card],
              !.selected_ratio = DEFAULT_ASPECTS[card]]

AspectCardClicked(d, card) ==
    [d EXCEPT !.cards = [k \in DOMAIN @ |-> k = card],
              !.selected_ratio = DEFAULT_ASPECTS[card]]

RECURSIVE ClickCards(_, _)
ClickCards(d, cs) ==
    IF cs = <<>> THEN d ELSE ClickCards(AspectCardClicked(d, Head(cs)), Tail(cs))

(* selectedName returning the field as typed *)
SelectedName_NoTrim(d) == IF d.name_edit # <<>> THEN d.name_edit ELSE Base

SelectedName(d) == IF Strip(d.name_edit) # <<>> THEN Strip(d.name_edit) ELSE Base

SelectedAspect(d) == d.selected_ratio

(* What the user does with the open dialog: retype the name or keep it,    *)
(* click cards, then accept or cancel.                                     *)
DialogExec(d, ui) ==
    ClickCards(IF ui.retype THEN [d EXCEPT !.name_edit = ui.text] ELSE d, ui.cards)

----------------------------------------------------------------------------
(* ImagePane *)

RECURSIVE FirstFreeNumber(_, _)
FirstFreeNumber(existing, n) ==
    IF FormatLabel(Base, n) \in existing THEN FirstFreeNumber(existing, n + 1) ELSE n

(* _nextDefaultLabel numbering by the count of canvases *)
NextDefaultLabel_ByCount(w) == FormatLabel(Base, RealTabCount(w) + 1)

NextDefaultLabel(w) ==
    LET existing == {TabText(w, i) : i \in 0..(RealTabCount(w) - 1)}
    IN  FormatLabel(Base, FirstFreeNumber(existing, 1))

NewCanvas(w) ==
    LET free == (1..(Cardinality(DOMAIN w.canvases) + 1)) \ DOMAIN w.canvases
    IN  CHOOSE c \in free : \A e \in free : c <= e

AddNewCanvasTab(w, label, aspect) ==
    LET canvas == NewCanvas(w)
        text   == IF label # <<>> THEN label ELSE NextDefaultLabel(w)
        w1 == [w EXCEPT !.canvases =
                   [c \in DOMAIN @ \cup {canvas} |-> IF c = canvas THEN aspect ELSE @[c]]]
        w2 == InsertCanvasTab(w1, canvas, text)
    IN  SetCurrentIndex(w2, w2.ret)

PromptNewCanvas(w, ui) == DialogExec(NewCanvasDialog(NextDefaultLabel(w)), ui)

(* createCanvasViaDialog going on to add the canvas after a cancelled dialog *)
CreateCanvasViaDialog_IgnoreCancel(w, ui) ==
    LET dlg == PromptNewCanvas(w, ui)
    IN  AddNewCanvasTab(w, SelectedName(dlg), SelectedAspect(dlg))

CreateCanvasViaDialog(w, ui) ==
    IF ~ui.accept THEN w
    ELSE LET dlg == PromptNewCanvas(w, ui)
         IN  AddNewCanvasTab(w, SelectedName(dlg), SelectedAspect(dlg))

RenameCurrentTab(w, new_name) ==
    LET i == w.barIndex
    IN  IF 0 <= i /\ i < RealTabCount(w) THEN SetTabText(w, i, new_name) ELSE w

----------------------------------------------------------------------------
(* _ImageCanvasTabWidget: the close request *)

(* the removal leaving both objects blocked *)
RemoveTabBlocked_NoRestore(w, index) ==
    RemoveTab([w EXCEPT !.blockedSelf = TRUE, !.blockedTb = TRUE], index)

(* the removal without blocking anything *)
RemoveTabBlocked_NoBlock(w, index) == RemoveTab(w, index)

RemoveTabBlocked(w, index) ==
    LET was_blocked_self == w.blockedSelf
        was_blocked_tb   == w.blockedTb
        w1 == RemoveTab([w EXCEPT !.blockedSelf = TRUE, !.blockedTb = TRUE], index)
    IN  [w1 EXCEPT !.blockedTb = was_blocked_tb,
                   !.blockedSelf = was_blocked_self]

DeleteLater(w, p) == [w EXCEPT !.canvases = [c \in DOMAIN @ \ {p} |-> @[c]]]

(* the neighbour choice without the step back from the '+' page *)
CloseTarget_NoFallback(w, index) == Min(index, Count(w) - 1)

CloseTarget(w, index) ==
    LET target == Min(index, Count(w) - 1)
    IN  IF Widget(w, target) = PLUS_PAGE /\ target - 1 >= 0
        THEN target - 1 ELSE target

(* _onClose without the test for the '+' page *)
OnClose_NoGuard(w, index) ==
    LET p == Widget(w, index)
    IN  IF p = -1 THEN w
        ELSE LET w3 == EnsurePlusTab(DeleteLater(RemoveTabBlocked(w, index), p))
             IN  IF RealTabCount(w3) > 0
                 THEN SetCurrentIndex(w3, CloseTarget(w3, index))
                 ELSE w3

(* _onClose opening a fresh canvas when the last one is closed *)
OnClose_Respawn(w, index) ==
    LET p == Widget(w, index)
    IN  IF p = -1 \/ p = PLUS_PAGE THEN w
        ELSE IF ~IsImageCanvas(p) THEN w
        ELSE LET w3 == EnsurePlusTab(DeleteLater(RemoveTabBlocked(w, index), p))
             IN  IF RealTabCount(w3) > 0
                 THEN SetCurrentIndex(w3, CloseTarget(w3, index))
                 ELSE AddNewCanvasTab(w3, <<>>, DefaultAspect)

(* _onClose removing the current tab instead of the one asked for *)
OnClose_RemoveCurrent(w, index) ==
    LET p == Widget(w, index)
    IN  IF p = -1 \/ p = PLUS_PAGE THEN w
        ELSE IF ~IsImageCanvas(p) THEN w
        ELSE LET w3 == EnsurePlusTab(DeleteLater(RemoveTabBlocked(w, w.barIndex),
                                                 Widget(w, w.barIndex)))
             IN  IF RealTabCount(w3) > 0
                 THEN SetCurrentIndex(w3, CloseTarget(w3, index))
                 ELSE w3

OnClose(w, index) ==
    LET p == Widget(w, index)
    IN  IF p = -1 \/ p = PLUS_PAGE THEN w
        ELSE IF ~IsImageCanvas(p) THEN w
        ELSE LET w3 == EnsurePlusTab(DeleteLater(RemoveTabBlocked(w, index), p))
             IN  IF RealTabCount(w3) > 0
                 THEN SetCurrentIndex(w3, CloseTarget(w3, index))
                 ELSE w3

----------------------------------------------------------------------------
(* _ImageCanvasTabBar and the plus signal *)

IsPlusIndex(w, index) == ValidIndex(w.bar, index) /\ TabText(w, index) = PlusText

OnPlusClicked(w, ui) == CreateCanvasViaDialog(w, ui)

(* mousePressEvent passing the press on the '+' tab on to the tab bar too *)
MousePressEvent_SelectPlus(w, idx, ui) ==
    IF IsPlusIndex(w, idx)
    THEN BarSetCurrentIndex(OnPlusClicked([w EXCEPT !.clicks = @ + 1], ui), idx)
    ELSE BarSetCurrentIndex(w, idx)

MousePressEvent(w, idx, ui) ==
    IF IsPlusIndex(w, idx)
    THEN OnPlusClicked([w EXCEPT !.clicks = @ + 1], ui)
    ELSE BarSetCurrentIndex(w, idx)

MouseDoubleClickEvent(w, idx, new_text, ok) ==
    IF idx # -1 /\ ~IsPlusIndex(w, idx)
    THEN (IF ok /\ Strip(new_text) # <<>>
          THEN SetTabText(w, idx, Strip(new_text))
          ELSE w)
    ELSE w

----------------------------------------------------------------------------
(* Inputs *)

NameInputs == { <<" ">>, <<" ", "+">> }

RenameInputs == { <<"+">>, <<"Untitled", " ", "1">> }

AspectInputs == { <<1, 1>>, <<16, 9>> }

CardClickInputs == { <<>>, <<5>>, <<5, 1>> }

DialogInputs ==
    [retype : {TRUE}, text : {<<" ", "+">>}, cards : {<<>>, <<5>>}, accept : {TRUE}]
    \cup [retype : {FALSE}, text : {<<>>}, cards : CardClickInputs, accept : {TRUE}]
    \cup [retype : {FALSE}, text : {<<>>}, cards : {<<5>>}, accept : {FALSE}]

NoDialog == [retype |-> FALSE, text |-> <<>>, cards |-> <<>>, accept |-> FALSE]

LabelInputs == { <<>> }

Positions == -1..Len(bar)

----------------------------------------------------------------------------
(* The state machine *)

Commit(w) ==
    /\ stack' = w.stack
    /\ stackIndex' = w.stackIndex
    /\ bar' = w.bar
    /\ barIndex' = w.barIndex
    /\ canvases' = w.canvases
    /\ adjusting' = w.adjusting
    /\ blockedSelf' = w.blockedSelf
    /\ blockedTb' = w.blockedTb
    /\ notes' = w.notes
    /\ clicks' = w.clicks
    /\ ret' = w.ret

(* no dialog is shown, no separate canvas and no menu bar is looked at *)
NoDlg == [state |-> "none"]

NoCanvas == [state |-> "none"]

NoMenu == [state |-> "none"]

(* last: the handler that ran most recently, and whether it went past its  *)
(* guards (press: the dialog was accepted; close: the index named a        *)
(* canvas; double click: the tab was renamed; move: the '+' tab took part) *)
Handler(op, acc) == [op |-> op, acc |-> acc]

Docs(w) == {At(w.stack, i) : i \in 0..(Len(w.stack) - 1)} \ {PLUS_PAGE}

Init ==
    /\ stack = TabWidgetInit.stack
    /\ stackIndex = TabWidgetInit.stackIndex
    /\ bar = TabWidgetInit.bar
    /\ barIndex = TabWidgetInit.barIndex
    /\ canvases = TabWidgetInit.canvases
    /\ adjusting = TabWidgetInit.adjusting
    /\ blockedSelf = TabWidgetInit.blockedSelf
    /\ blockedTb = TabWidgetInit.blockedTb
    /\ notes = TabWidgetInit.notes
    /\ clicks = TabWidgetInit.clicks
    /\ ret = TabWidgetInit.ret
    /\ last = Handler("init", FALSE)
    /\ paneReady = FALSE
    /\ dialog = NoDlg
    /\ imageCanvas = NoCanvas
    /\ menu = NoMenu

InitialTab ==
    /\ ~paneReady
    /\ Commit(AddNewCanvasTab(Self, FormatLabel(Base, 1), DefaultAspect))
    /\ last' = Handler("initialTab", FALSE)
    /\ paneReady' = TRUE
    /\ UNCHANGED <<dialog, imageCanvas, menu>>

AddTabAction ==
    /\ paneReady
    /\ RealTabCount(Self) < MaxDocs
    /\ \E label \in LabelInputs, aspect \in AspectInputs :
           /\ Commit(AddNewCanvasTab(Self, label, aspect))
           /\ last' = Handler("addNewCanvasTab", FALSE)
    /\ UNCHANGED <<paneReady, dialog, imageCanvas, menu>>

PressAction ==
    /\ paneReady
    /\ \E idx \in Positions :
       \E ui \in IF IsPlusIndex(Self, idx) THEN DialogInputs ELSE {NoDialog} :
           /\ (IsPlusIndex(Self, idx) /\ ui.accept) => RealTabCount(Self) < MaxDocs
           /\ Commit(MousePressEvent(Self, idx, ui))
           /\ last' = Handler("press", IsPlusIndex(Self, idx) /\ ui.accept)
    /\ UNCHANGED <<paneReady, dialog, imageCanvas, menu>>

DoubleClickAction ==
    /\ paneReady
    /\ \E idx \in Positions :
       \E new_text \in NameInputs, ok \in BOOLEAN :
           /\ (ok \/ new_text = <<" ">>)
           /\ Commit(MouseDoubleClickEvent(Self, idx, new_text, ok))
           /\ last' = Handler("doubleClick",
                              /\ idx # -1
                              /\ ~IsPlusIndex(Self, idx)
                              /\ ok
                              /\ Strip(new_text) # <<>>)
    /\ UNCHANGED <<paneReady, dialog, imageCanvas, menu>>

RenameAction ==
    /\ paneReady
    /\ \E new_name \in RenameInputs :
           /\ Commit(RenameCurrentTab(Self, new_name))
           /\ last' = Handler("renameCurrentTab", FALSE)
    /\ UNCHANGED <<paneReady, dialog, imageCanvas, menu>>

CloseAction ==
    /\ paneReady
    /\ \E index \in Positions :
           /\ Commit(OnClose(Self, index))
           /\ last' = Handler("close", IsImageCanvas(Widget(Self, index)))
    /\ UNCHANGED <<paneReady, dialog, imageCanvas, menu>>

MoveAction ==
    /\ paneReady
    /\ \E from \in 0..(Len(bar) - 1), to \in 0..(Len(bar) - 1) :
           /\ from # to
           /\ Commit(MoveTab(Self, from, to))
           /\ last' = Handler("move", PlusIndex(Self) \in {from, to})
    /\ UNCHANGED <<paneReady, dialog, imageCanvas, menu>>

Next ==
    \/ InitialTab
    \/ AddTabAction
    \/ PressAction
    \/ DoubleClickAction
    \/ RenameAction
    \/ CloseAction
    \/ MoveAction

Spec == Init /\ [][Next]_vars

----------------------------------------------------------------------------
(* Properties *)

(* the dialog inputs a press may be given in the current state *)
PressInputs == {ui \in DialogInputs : ui.accept => RealTabCount(Self) < MaxDocs}

(* The page stack and the tab bar stay aligned: same length, same current. *)
TypeOK ==
    /\ Len(stack) = Len(bar)
    /\ stackIndex = barIndex
    /\ DOMAIN canvases = Docs(Self)
    /\ ~adjusting /\ ~blockedSelf /\ ~blockedTb

(* C1: in every state between handlers the '+' page is the last entry of   *)
(* the tab order, its tab is labelled "+", and every entry before it is a  *)
(* canvas.                                                                 *)
C1_SentinelLast ==
    /\ Len(stack) >= 1
    /\ Len(bar) = Len(stack)
    /\ Widget(Self, Len(stack) - 1) = PLUS_PAGE
    /\ TabText(Self, Len(bar) - 1) = PlusText
    /\ \A i \in 0..(Len(stack) - 2) : IsImageCanvas(Widget(Self, i))

(* a reorder that involved the '+' tab has run on a strip of two canvases *)
C1_Witness ==
    /\ last.op = "move"
    /\ last.acc
    /\ Len(stack) >= 3

(* C2: exactly one '+' entry is present in every state, so the entry count *)
(* is the number of canvases plus one and never zero.                      *)
C2_OneSentinel ==
    /\ Cardinality({i \in 0..(Len(stack) - 1) : Widget(Self, i) = PLUS_PAGE}) = 1
    /\ Cardinality({i \in 0..(Len(bar) - 1) : TabText(Self, i) = PlusText
                                              /\ ~At(bar, i).btn}) = 1
    /\ Len(stack) = RealTabCount(Self) + 1
    /\ Len(bar) = Cardinality(DOMAIN canvases) + 1
    /\ Len(stack) > 0

(* every canvas has been closed after the pane was set up *)
C2_Witness ==
    /\ last.op = "close"
    /\ last.acc
    /\ Len(stack) = 1

(* C3: an insert puts the new canvas at the position the '+' page held     *)
(* before the call, leaves the '+' page immediately after it and the       *)
(* canvases before it where they were, makes the new canvas current and    *)
(* returns that position.                                                  *)
C3_InsertBeforeSentinel ==
    \A label \in RenameInputs :
        LET pi     == PlusIndex(Self)
            canvas == NewCanvas(Self)
            r      == InsertCanvasTab(Self, canvas, label)
        IN  /\ Widget(r, pi) = canvas
            /\ TabText(r, pi) = label
            /\ PlusIndex(r) = pi + 1
            /\ Count(r) = pi + 2
            /\ \A i \in 0..(pi - 1) : Widget(r, i) = Widget(Self, i)
            /\ r.barIndex = pi
            /\ r.stackIndex = pi
            /\ r.ret = pi

(* an insert into a strip that already held a canvas *)
C3_Witness ==
    /\ last.op = "addNewCanvasTab"
    /\ Len(stack) >= 3
    /\ ret = Len(stack) - 2
    /\ barIndex = ret

(* C4: a close request for the '+' position or for a position out of range *)
(* changes nothing and notifies nobody.                                    *)
C4_InvalidCloseNoOp ==
    \A index \in Positions :
        Widget(Self, index) \in {-1, PLUS_PAGE} => OnClose(Self, index) = Self

(* a close request that named no canvas has run with canvases present *)
C4_Witness ==
    /\ last.op = "close"
    /\ ~last.acc
    /\ RealTabCount(Self) >= 1
    /\ notes = <<>>

(* C5: closing the current canvas while another remains makes current the  *)
(* canvas now at the same index, or the one at index - 1 when that index   *)
(* now holds the '+' page or nothing; never the '+' page.                  *)
C5_CloseCurrentSelectsNeighbour ==
    LET index == barIndex
        r == OnClose(Self, index)
    IN  (IsImageCanvas(Widget(Self, index)) /\ RealTabCount(Self) >= 2) =>
            /\ r.barIndex = IF IsImageCanvas(Widget(r, index))
                            THEN index ELSE index - 1
            /\ IsImageCanvas(Widget(r, r.barIndex))
            /\ r.stackIndex = r.barIndex

(* the current canvas, last before the '+' page, was closed and the canvas *)
(* at index - 1 was selected in its place                                  *)
C5_Witness ==
    /\ last.op = "close"
    /\ last.acc
    /\ Len(stack) >= 2
    /\ barIndex = Len(stack) - 2
    /\ Len(notes) = 1
    /\ notes[1].index = barIndex

(* C6: closing the only canvas leaves the '+' page alone and creates no    *)
(* canvas; an insert into that strip puts the canvas at position 0, before *)
(* the '+' page, and selects it.                                           *)
C6_CloseLastThenInsert ==
    RealTabCount(Self) = 1 =>
        LET r      == OnClose(Self, 0)
            canvas == NewCanvas(r)
        IN  /\ r.stack = <<PLUS_PAGE>>
            /\ Count(r) = 1 /\ TabText(r, 0) = PlusText
            /\ r.canvases = [c \in {} |-> DefaultAspect]
            /\ \A label \in RenameInputs :
                   LET r2 == InsertCanvasTab(r, canvas, label)
                   IN  /\ r2.stack = <<canvas, PLUS_PAGE>>
                       /\ TabText(r2, 0) = label /\ TabText(r2, 1) = PlusText
                       /\ r2.barIndex = 0 /\ r2.stackIndex = 0 /\ r2.ret = 0

(* an insert into the strip emptied by closing the only canvas *)
C6_Witness ==
    /\ paneReady
    /\ last.op = "addNewCanvasTab"
    /\ Len(stack) = 2
    /\ ret = 0
    /\ barIndex = 0

(* C7: a canvas is added only by an explicit insert or by a press on the   *)
(* '+' page whose dialog was accepted; a close, a rename, a reorder, a     *)
(* press on a canvas tab, a cancelled dialog or a currentChanged           *)
(* notification never adds one.                                            *)
C7_CreationOnlyByInsertOrActivation ==
    LET n == RealTabCount(Self)
    IN  /\ \A idx \in Positions :
               /\ RealTabCount(OnClose(Self, idx)) <= n
               /\ RealTabCount(OnCurrentChanged(Self, idx)) = n
               /\ \A new_text \in NameInputs :
                      RealTabCount(MouseDoubleClickEvent(Self, idx, new_text, TRUE)) = n
               /\ \A ui \in IF IsPlusIndex(Self, idx) THEN PressInputs ELSE {NoDialog} :
                      LET r == MousePressEvent(Self, idx, ui)
                      IN  IF Widget(Self, idx) = PLUS_PAGE /\ ui.accept
                          THEN RealTabCount(r) = n + 1
                          ELSE RealTabCount(r) = n
        /\ \A new_name \in RenameInputs :
               RealTabCount(RenameCurrentTab(Self, new_name)) = n
        /\ \A from \in 0..(Len(bar) - 1), to \in 0..(Len(bar) - 1) :
               from # to => RealTabCount(MoveTab(Self, from, to)) = n

(* C8: no currentChanged notification delivered to a listener names the    *)
(* position of the '+' page.                                               *)
C8_NoSentinelNotification ==
    \A k \in 1..Len(notes) : notes[k].page # PLUS_PAGE

(* C9: a press on a tab emits plusClicked exactly when the pressed tab is  *)
(* the '+' page; a press on the '+' page does not by itself change the     *)
(* current entry, a press on a canvas tab makes that canvas current.       *)
C9_ActivationIffSentinel ==
    \A idx \in 0..(Len(bar) - 1) :
    \A ui \in PressInputs :
        LET r == MousePressEvent(Self, idx, ui)
        IN  IF Widget(Self, idx) = PLUS_PAGE
            THEN r.clicks = 1 /\ (~ui.accept => r.barIndex = barIndex)
            ELSE r.clicks = 0 /\ r.barIndex = idx

(* C10: when a reorder takes the '+' page off the last position, the       *)
(* handler puts it back, the canvases keep their order, the current canvas *)
(* stays, no canvas is created and the corrective move delivers no         *)
(* currentChanged notification.                                            *)
C10_SentinelDragRestored ==
    \A to \in 0..(Len(bar) - 1) :
        to # PlusIndex(Self) =>
            LET r == MoveTab(Self, PlusIndex(Self), to)
            IN  /\ PlusIndex(r) = Count(r) - 1
                /\ r.stack = stack /\ r.bar = bar /\ r.canvases = canvases
                /\ r.barIndex = barIndex /\ r.stackIndex = stackIndex
                /\ r.clicks = 0
                /\ \A k \in 1..Len(r.notes) : ~r.notes[k].adjusting

(* the strip w with the label of the tab at position i replaced by text *)
Relabelled(w, i, text) ==
    [w EXCEPT !.bar = [k \in DOMAIN @ |->
                          IF k = i + 1 THEN [text |-> text, btn |-> @[k].btn]
                          ELSE @[k]]]

(* the names tried in a rename *)
RenameTexts == RenameInputs \cup NameInputs \cup { <<>>, <<"a", " ", "b">> }

(* C11: a rename addressed to the '+' page changes nothing; addressed to a *)
(* canvas it sets that tab's label to the new label, whatever it is, and   *)
(* leaves count, order, current entry, other labels and ratios unchanged.  *)
(* renameCurrentTab addresses the current entry, a double click addresses  *)
(* the tab under the pointer with the trimmed, non-empty text.             *)
C11_RenameFrame ==
    /\ \A new_name \in RenameTexts :
           RenameCurrentTab(Self, new_name) =
               IF IsImageCanvas(Widget(Self, barIndex))
               THEN Relabelled(Self, barIndex, new_name)
               ELSE Self
    /\ \A idx \in 0..(Len(bar) - 1) :
       \A new_text \in RenameTexts :
           Strip(new_text) # <<>> =>
               MouseDoubleClickEvent(Self, idx, new_text, TRUE) =
                   IF IsImageCanvas(Widget(Self, idx))
                   THEN Relabelled(Self, idx, Strip(new_text))
                   ELSE Self

(* the canvas an insert just returned has a label no other canvas has *)
NewLabelUnique(r) ==
    \A j \in 0..(RealTabCount(r) - 1) :
        j # r.ret => TabText(r, j) # TabText(r, r.ret)

(* accepted dialogs: the inputs of the state machine, and a name typed by  *)
(* the user that another canvas may already have                           *)
AcceptInputs ==
    {ui \in DialogInputs : ui.accept}
    \cup [retype : {TRUE}, text : RenameTexts, cards : {<<>>}, accept : {TRUE}]

(* C12: right after a canvas is created (initial tab, insert with the      *)
(* default label, accepted dialog with any name) its label differs from    *)
(* the label of every other canvas.                                        *)
C12_CreationLabelUnique ==
    /\ ~paneReady =>
           NewLabelUnique(AddNewCanvasTab(Self, FormatLabel(Base, 1), DefaultAspect))
    /\ \A aspect \in AspectInputs :
           NewLabelUnique(AddNewCanvasTab(Self, <<>>, aspect))
    /\ \A ui \in AcceptInputs :
           NewLabelUnique(MousePressEvent(Self, PlusIndex(Self), ui))

(* cancelled dialogs, whatever was typed or clicked before the cancel *)
CancelInputs ==
    [retype : BOOLEAN, text : NameInputs, cards : CardClickInputs, accept : {FALSE}]

(* C14: a press on the '+' page whose dialog is cancelled emits            *)
(* plusClicked and leaves the strip as it was: entries, order, labels,     *)
(* ratios and current entry unchanged, no currentChanged notification.     *)
C14_CancelNoOp ==
    \A ui \in CancelInputs :
        MousePressEvent(Self, PlusIndex(Self), ui) = [Self EXCEPT !.clicks = 1]

(* a press on the '+' page was cancelled while canvases were open *)
C14_Witness ==
    /\ last.op = "press"
    /\ ~last.acc
    /\ clicks = 1
    /\ notes = <<>>
    /\ RealTabCount(Self) >= 1
    /\ \A i \in 0..(RealTabCount(Self) - 1) : TabText(Self, i) # PlusText

----------------------------------------------------------------------------
(* The new-canvas dialog, one user action at a time *)

paneVars == <<stack, stackIndex, bar, barIndex, canvases, adjusting,
              blockedSelf, blockedTb, notes, clicks, ret>>

(* the texts the user may leave in the name field *)
DialogTexts ==
    { <<>>, <<" ">>, <<" ", "+">>, <<" ", "a", " ", "b", " ">>,
      <<"Untitled", " ", "1">> }

(* promptNewCanvas builds the dialog and shows it; clicked is the card     *)
(* clicked last (0: none yet), nclicks counts the clicks up to two         *)
DlgOpen ==
    /\ paneReady
    /\ dialog.state # "open"
    /\ RealTabCount(Self) < MaxDocs
    /\ dialog' = [state |-> "open",
                  d |-> NewCanvasDialog(NextDefaultLabel(Self)),
                  clicked |-> 0, nclicks |-> 0]
    /\ Commit([Self EXCEPT !.clicks = 1])
    /\ last' = Handler("press", FALSE)
    /\ UNCHANGED <<paneReady, imageCanvas, menu>>

DlgSetText ==
    /\ dialog.state = "open"
    /\ \E text \in DialogTexts :
           dialog' = [dialog EXCEPT !.d.name_edit = text]
    /\ UNCHANGED <<paneVars, last, paneReady, imageCanvas, menu>>

DlgCardClicked ==
    /\ dialog.state = "open"
    /\ \E card \in 1..Len(DEFAULT_ASPECTS) :
           dialog' = [dialog EXCEPT !.d = AspectCardClicked(@, card),
                                    !.clicked = card,
                                    !.nclicks = Min(@ + 1, 2)]
    /\ UNCHANGED <<paneVars, last, paneReady, imageCanvas, menu>>

DlgAccept ==
    /\ dialog.state = "open"
    /\ Commit(AddNewCanvasTab(Self, SelectedName(dialog.d), SelectedAspect(dialog.d)))
    /\ dialog' = [dialog EXCEPT !.state = "accepted"]
    /\ last' = Handler("createCanvasViaDialog", TRUE)
    /\ UNCHANGED <<paneReady, imageCanvas, menu>>

DlgReject ==
    /\ dialog.state = "open"
    /\ dialog' = [dialog EXCEPT !.state = "rejected"]
    /\ last' = Handler("createCanvasViaDialog", FALSE)
    /\ UNCHANGED <<paneVars, paneReady, imageCanvas, menu>>

DialogNext ==
    \/ InitialTab
    \/ DlgOpen
    \/ DlgSetText
    \/ DlgCardClicked
    \/ DlgAccept
    \/ DlgReject

DialogSpec == Init /\ [][DialogNext]_vars

Spaces(n) == [k \in 1..n |-> " "]

(* label is text without its leading and trailing blanks, or "Untitled"    *)
(* when nothing else is left                                               *)
IsTrimOrDefault(label, text) ==
    IF \A k \in 1..Len(text) : text[k] = " "
    THEN label = Base
    ELSE /\ label # <<>>
         /\ Head(label) # " "
         /\ label[Len(label)] # " "
         /\ \E a \in 0..Len(text), b \in 0..Len(text) :
                text = Spaces(a) \o label \o Spaces(b)

C15_OneCardSelected ==
    dialog.state # "none" =>
        LET d == dialog.d
            k == IF dialog.clicked = 0
                 THEN CHOOSE c \in DOMAIN DEFAULT_ASPECTS : DEFAULT_ASPECTS[c] = <<1, 1>>
                 ELSE dialog.clicked
        IN  /\ {c \in DOMAIN d.cards : d.cards[c]} = {k}
            /\ SelectedAspect(d) = DEFAULT_ASPECTS[k]

(* a second card was clicked after a first one *)
C15_Witness ==
    /\ dialog.state = "open"
    /\ dialog.nclicks = 2
    /\ dialog.clicked = 3
    /\ dialog.d.cards[3]
    /\ SelectedAspect(dialog.d) = <<4, 3>>

----------------------------------------------------------------------------
(* Python floats: binary64 numbers with a 53-bit significand, rounded to    *)
(* nearest, ties to even.  A positive float is [e, hi, mid, lo]: the       *)
(* significand is hi * 2^36 + mid * 2^18 + lo, its top bit is set and has  *)
(* weight 2^e.                                                             *)

MantissaBits == 53

LimbBits == 18

HighBits == MantissaBits - 2 * LimbBits

RECURSIVE Pow2(_)
Pow2(n) == IF n = 0 THEN 1 ELSE 2 * Pow2(n - 1)

(* the largest e with b * 2^e <= a, for a >= b *)
RECURSIVE ExpUp(_, _, _)
ExpUp(a, b, e) == IF b * Pow2(e + 1) <= a THEN ExpUp(a, b, e + 1) ELSE e

(* the smallest k with a * 2^k >= b, for a < b *)
RECURSIVE ExpDown(_, _, _)
ExpDown(a, b, k) == IF a * Pow2(k) >= b THEN k ELSE ExpDown(a, b, k + 1)

(* the number of bits of n *)
RECURSIVE BitLength(_)
BitLength(n) == IF n = 0 THEN 0 ELSE 1 + BitLength(n \div 2)

(* the significand hi, mid, lo at exponent e, with the bit below it (guard) *)
(* and whether anything non-zero lies beyond that bit (sticky), rounded to  *)
(* nearest, ties to even                                                    *)
RoundToFloat(e, hi, mid, lo, guard, sticky) ==
    LET up   == guard /\ (sticky \/ lo % 2 = 1)
        lo2  == IF up THEN lo + 1 ELSE lo
        mid2 == IF lo2 = Pow2(LimbBits) THEN mid + 1 ELSE mid
        hi2  == IF mid2 = Pow2(LimbBits) THEN hi + 1 ELSE hi
    IN  IF hi2 = Pow2(HighBits)
        THEN [e |-> e + 1, hi |-> Pow2(HighBits - 1), mid |-> 0, lo |-> 0]
        ELSE [e |-> e, hi |-> hi2, mid |-> mid2 % Pow2(LimbBits),
              lo |-> lo2 % Pow2(LimbBits)]

(* a / b for positive integers a and b (each converted exactly): long *)
(* division, one limb of the quotient at a time                       *)
FDiv(a, b) ==
    LET e  == IF a >= b THEN ExpUp(a, b, 0) ELSE 0 - ExpDown(a, b, 0)
        n0 == IF e >= 0 THEN a ELSE a * Pow2(0 - e)
        d0 == IF e >= 0 THEN b * Pow2(e) ELSE b
        n1 == n0 * Pow2(HighBits - 1)
        n2 == (n1 % d0) * Pow2(LimbBits)
        n3 == (n2 % d0) * Pow2(LimbBits)
        n4 == (n3 % d0) * 2
    IN  RoundToFloat(e, n1 \div d0, n2 \div d0, n3 \div d0,
                     n4 >= d0, n4 % d0 # 0)

(* r * f for a positive integer r (converted exactly) and a float f: the *)
(* exact product limb by limb, then shifted back to the significand's    *)
(* width                                                                 *)
FMulInt(r, f) ==
    LET pl  == r * f.lo
        pm  == r * f.mid + (pl \div Pow2(LimbBits))
        ph  == r * f.hi + (pm \div Pow2(LimbBits))
        l   == pl % Pow2(LimbBits)
        m   == pm % Pow2(LimbBits)
        s   == BitLength(ph) - HighBits
        out == l % Pow2(s)
    IN  RoundToFloat(f.e + s,
                     ph \div Pow2(s),
                     ((ph % Pow2(s)) * Pow2(LimbBits) + m) \div Pow2(s),
                     ((m % Pow2(s)) * Pow2(LimbBits) + l) \div Pow2(s),
                     s >= 1 /\ out >= Pow2(s - 1),
                     s >= 1 /\ out % Pow2(s - 1) # 0)

FLess(f, g) ==
    \/ f.e < g.e
    \/ f.e = g.e /\ f.hi < g.hi
    \/ f.e = g.e /\ f.hi = g.hi /\ f.mid < g.mid
    \/ f.e = g.e /\ f.hi = g.hi /\ f.mid = g.mid /\ f.lo < g.lo

(* min(x, y) *)
FMin(x, y) == IF FLess(y, x) THEN y ELSE x

(* int(f), for f below 2^HighBits *)
FInt(f) == IF f.e < 0 THEN 0 ELSE f.hi \div Pow2(HighBits - 1 - f.e)

(***************************************************************************)
(* ImageCanvas on its own: the stored aspect ratio and the rectangle that  *)
(* paintEvent draws.  A canvas is [aspect, avail]: _aspect and the         *)
(* widget's contentsRect().                                                *)
(***************************************************************************)
MinimumSize == 50

QRect(x, y, w, h) == [x |-> x, y |-> y, w |-> w, h |-> h]

ImageCanvasNew(aspect_ratio, size) ==
    [aspect |-> aspect_ratio, avail |-> QRect(0, 0, size[1], size[2])]

SetAspectRatio_NoCheck(c, w, h) ==
    [c EXCEPT !.aspect = <<w, h>>]

SetAspectRatio(c, w, h) ==
    IF w <= 0 \/ h <= 0 THEN c
    ELSE [c EXCEPT !.aspect = <<w, h>>]

(* DEFAULT_ASPECTS.index(a): the first position of a, counted from 0 *)
AspectIndex(a) ==
    (CHOOSE k \in DOMAIN DEFAULT_ASPECTS :
         /\ DEFAULT_ASPECTS[k] = a
         /\ \A j \in 1..(k - 1) : DEFAULT_ASPECTS[j] # a) - 1

IsPreset(a) == \E k \in DOMAIN DEFAULT_ASPECTS : DEFAULT_ASPECTS[k] = a

CycleAspectRatio_NoWrap(c) ==
    IF IsPreset(c.aspect)
    THEN LET idx == AspectIndex(c.aspect)
         IN  [c EXCEPT !.aspect =
                  At(DEFAULT_ASPECTS, Min(idx + 1, Len(DEFAULT_ASPECTS) - 1))]
    ELSE [c EXCEPT !.aspect = At(DEFAULT_ASPECTS, 0)]

CycleAspectRatio(c) ==
    IF IsPreset(c.aspect)
    THEN LET idx == AspectIndex(c.aspect)
         IN  [c EXCEPT !.aspect =
                  At(DEFAULT_ASPECTS, (idx + 1) % Len(DEFAULT_ASPECTS))]
    ELSE [c EXCEPT !.aspect = At(DEFAULT_ASPECTS, 0)]

ComputeCanvasRect(c) ==
    LET avail == c.avail
        aw    == avail.w
        ah    == avail.h
        rw    == c.aspect[1]
        rh    == c.aspect[2]
    IN  IF rw = 0 \/ rh = 0 \/ aw <= 0 \/ ah <= 0 THEN avail
        ELSE LET scale == FMin(FDiv(aw, rw), FDiv(ah, rh))
                 cw    == FInt(FMulInt(rw, scale))
                 ch    == FInt(FMulInt(rh, scale))
             IN  QRect(avail.x + ((aw - cw) \div 2),
                       avail.y + ((ah - ch) \div 2), cw, ch)

RatioArgs == {-1, 0, 1, 2, 21}

SizeInputs == {<<aw, ah>> : aw \in {MinimumSize, MinimumSize + 1},
                            ah \in {MinimumSize, MinimumSize + 1}}

Live(c, prev) == [state |-> "live", c |-> c, prev |-> prev]

CanvasNew ==
    /\ imageCanvas.state = "none"
    /\ \E aspect_ratio \in AspectInputs, size \in SizeInputs :
           imageCanvas' = Live(ImageCanvasNew(aspect_ratio, size), aspect_ratio)
    /\ last' = Handler("ImageCanvas", TRUE)
    /\ UNCHANGED <<paneVars, paneReady, dialog, menu>>

CanvasSetAspectRatio ==
    /\ imageCanvas.state = "live"
    /\ \E w \in RatioArgs, h \in RatioArgs :
           /\ imageCanvas' = Live(SetAspectRatio(imageCanvas.c, w, h),
                                  imageCanvas.c.aspect)
           /\ last' = Handler("setAspectRatio", w > 0 /\ h > 0)
    /\ UNCHANGED <<paneVars, paneReady, dialog, menu>>

CanvasCycleAspectRatio ==
    /\ imageCanvas.state = "live"
    /\ imageCanvas' = Live(CycleAspectRatio(imageCanvas.c), imageCanvas.c.aspect)
    /\ last' = Handler("cycleAspectRatio", IsPreset(imageCanvas.c.aspect))
    /\ UNCHANGED <<paneVars, paneReady, dialog, menu>>

CanvasResize ==
    /\ imageCanvas.state = "live"
    /\ \E size \in SizeInputs :
           imageCanvas' = Live([imageCanvas.c EXCEPT
                                    !.avail = QRect(0, 0, size[1], size[2])],
                               imageCanvas.c.aspect)
    /\ last' = Handler("resizeEvent", TRUE)
    /\ UNCHANGED <<paneVars, paneReady, dialog, menu>>

CanvasNext ==
    \/ CanvasNew
    \/ CanvasSetAspectRatio
    \/ CanvasCycleAspectRatio
    \/ CanvasResize

CanvasSpec == Init /\ [][CanvasNext]_vars

(* C16: setAspectRatio(w, h) with w <= 0 or h <= 0 leaves the stored ratio *)
(* (and the canvas) as it was and completes; with w > 0 and h > 0 the      *)
(* stored ratio becomes exactly (w, h).                                    *)
C16_SetAspectRatio ==
    imageCanvas.state = "live" =>
        /\ \A w \in RatioArgs, h \in RatioArgs :
               LET r == SetAspectRatio(imageCanvas.c, w, h)
               IN  /\ (w <= 0 \/ h <= 0) => r = imageCanvas.c
                   /\ (w > 0 /\ h > 0) =>
                          r.aspect = <<w, h>> /\ r.avail = imageCanvas.c.avail
        /\ (last.op = "setAspectRatio" /\ ~last.acc) =>
               imageCanvas.c.aspect = imageCanvas.prev

(* a non-positive pair was just rejected on a canvas holding a custom ratio *)
C16_Witness ==
    /\ imageCanvas.state = "live"
    /\ last = Handler("setAspectRatio", FALSE)
    /\ imageCanvas.prev = <<1, 21>>
    /\ imageCanvas.c.aspect = <<1, 21>>

RECURSIVE CycleTimes(_, _)
CycleTimes(c, n) == IF n = 0 THEN c ELSE CycleTimes(CycleAspectRatio(c), n - 1)

SuccessorOf(a) ==
    CASE a = <<1, 1>>  -> <<3, 2>>
      [] a = <<3, 2>>  -> <<4, 3>>
      [] a = <<4, 3>>  -> <<5, 4>>
      [] a = <<5, 4>>  -> <<16, 9>>
      [] a = <<16, 9>> -> <<9, 16>>
      [] OTHER         -> <<1, 1>>

(* C17: cycleAspectRatio() takes each preset to the next one of the list,  *)
(* the last preset and every ratio that is no preset to (1,1), and six     *)
(* applications from a preset give that preset again.                      *)
C17_CycleAspectRatio ==
    imageCanvas.state = "live" =>
        /\ \A a \in {DEFAULT_ASPECTS[k] : k \in DOMAIN DEFAULT_ASPECTS}
                   \cup (RatioArgs \X RatioArgs) \cup {imageCanvas.c.aspect} :
               LET c == [imageCanvas.c EXCEPT !.aspect = a]
               IN  /\ CycleAspectRatio(c) = [c EXCEPT !.aspect = SuccessorOf(a)]
                   /\ IsPreset(a) => CycleTimes(c, 6) = c
        /\ last.op = "cycleAspectRatio" =>
               imageCanvas.c.aspect = SuccessorOf(imageCanvas.prev)

(* the cycle just wrapped from the last preset to the first *)
C17_Witness ==
    /\ imageCanvas.state = "live"
    /\ last = Handler("cycleAspectRatio", TRUE)
    /\ imageCanvas.prev = <<9, 16>>
    /\ imageCanvas.c.aspect = <<1, 1>>

Abs(n) == IF n < 0 THEN 0 - n ELSE n

(* C18: for a positive ratio (w, h) and an available rectangle of positive *)
(* width aw and height ah, the canvas rectangle lies inside the available  *)
(* rectangle, has cw = aw or ch = ah, has |cw*h - ch*w| < max(w, h), and   *)
(* its left and right margins, and its top and bottom margins, differ by   *)
(* at most 1.                                                              *)
C18_CanvasRect ==
    (/\ imageCanvas.state = "live"
     /\ imageCanvas.c.aspect[1] > 0 /\ imageCanvas.c.aspect[2] > 0
     /\ imageCanvas.c.avail.w > 0 /\ imageCanvas.c.avail.h > 0) =>
        LET avail  == imageCanvas.c.avail
            w      == imageCanvas.c.aspect[1]
            h      == imageCanvas.c.aspect[2]
            r      == ComputeCanvasRect(imageCanvas.c)
            left   == r.x - avail.x
            right  == (avail.x + avail.w) - (r.x + r.w)
            top    == r.y - avail.y
            bottom == (avail.y + avail.h) - (r.y + r.h)
        IN  /\ left >= 0 /\ right >= 0 /\ top >= 0 /\ bottom >= 0
            /\ r.w >= 0 /\ r.h >= 0
            /\ r.w = avail.w \/ r.h = avail.h
            /\ Abs(r.w * h - r.h * w) < Max(w, h)
            /\ Abs(left - right) <= 1
            /\ Abs(top - bottom) <= 1

----------------------------------------------------------------------------
(***************************************************************************)
(* The menu bar.  A menu spec is a sequence of records as in the source;   *)
(* a path "File/Open" is the sequence of its pieces <<"File", "/", "Open">>.*)
(* create_menu is modelled by the sequence of objects it creates, each     *)
(* with the registry key it is stored under, in the order of the writes.   *)
(***************************************************************************)
MENU_SPEC ==
    << [title |-> "File",
        items |-> << [text |-> "Open", shortcut |-> "Ctrl+O", triggered |-> "on_open"],
                     [text |-> "Save", shortcut |-> "Ctrl+S", triggered |-> "on_save"],
                     [separator |-> TRUE],
                     [text |-> "Exit", shortcut |-> "Ctrl+Q", triggered |-> "close"] >>],
       [title |-> "Edit",
        items |-> << [text |-> "Undo", shortcut |-> "Ctrl+Z", triggered |-> "on_undo"],
                     [text |-> "Redo", shortcut |-> "Ctrl+Y", triggered |-> "on_redo"] >>],
       [title |-> "Help",
        items |-> << [text |-> "About", triggered |-> "on_about"],
                     [text |-> "More",
                      submenu |-> << [text |-> "Docs", triggered |-> "on_docs"],
                                     [text |-> "Check for Updates",
                                      triggered |-> "on_check_updates"] >>] >>] >>

(* the attributes of MainWindow that getattr finds: its own method, the    *)
(* inherited QWidget.close, and one attribute that is no method            *)
MainWindowMethods == {"on_about", "close"}

MainWindowValues == {"__module__"}

None == [kind |-> "None"]

(* dict.get(key, default) *)
Get(d, key, default) == IF key \in DOMAIN d THEN d[key] ELSE default

(* getattr(main_window, target, None) *)
GetAttr(target, default) ==
    IF target \in MainWindowMethods THEN [kind |-> "method", name |-> target]
    ELSE IF target \in MainWindowValues THEN [kind |-> "value", name |-> target]
    ELSE default

Callable(slot) == slot.kind = "method"

(* a string as the value of "triggered" *)
Str(name) == [kind |-> "str", name |-> name]

(* spec.get("triggered") *)
Triggered(spec) ==
    IF "triggered" \in DOMAIN spec THEN Str(spec.triggered) ELSE None

ConnectTrigger_NoLookup(slots, target) ==
    IF target.kind = "None" THEN slots
    ELSE Append(slots, target.name)

(* the slots connected to action.triggered after _connect_trigger; target  *)
(* is None, a callable or a string                                         *)
ConnectTrigger(slots, target) ==
    IF target.kind = "None" THEN slots
    ELSE IF target.kind = "method" THEN Append(slots, target.name)
    ELSE IF target.kind = "str"
         THEN LET slot == GetAttr(target.name, None)
              IN  IF Callable(slot) THEN Append(slots, slot.name)
                  ELSE slots
         ELSE slots

QAction(text, parent) ==
    [kind |-> "action", text |-> text, parent |-> parent, shortcut |-> "",
     slots |-> <<>>]

ApplyActionProps(action, spec) ==
    [action EXCEPT !.shortcut = Get(spec, "shortcut", ""),
                   !.slots = ConnectTrigger(@, Triggered(spec))]

QMenu(title, parent, shown) ==
    [kind |-> "menu", text |-> title, parent |-> parent, shown |-> shown]

(* f"{prefix}/{title}" *)
FormatPath(prefix, title) == prefix \o <<"/", title>>

(* registry[key] = obj *)
Write(key, obj) == [key |-> key, obj |-> obj]

RECURSIVE BuildMenu(_, _, _, _)
RECURSIVE BuildSubItems(_, _, _, _)
RECURSIVE BuildItems(_, _, _)

(* the loop over sub_items from position j on; menu is the path of the     *)
(* enclosing menu and sub_title the title of the submenu                   *)
BuildSubItems(full_path, sub_title, sub_items, j) ==
    IF j > Len(sub_items) THEN <<>>
    ELSE LET sub_it == sub_items[j]
             sub_menu == FormatPath(full_path, sub_title)
             here == IF Get(sub_it, "separator", FALSE) THEN <<>>
                     ELSE IF "submenu" \in DOMAIN sub_it
                     THEN BuildMenu(sub_menu, Get(sub_it, "text", "Submenu"),
                                    Get(sub_it, "submenu", <<>>), full_path)
                     ELSE LET act == ApplyActionProps(
                                         QAction(Get(sub_it, "text", "Unnamed"),
                                                 full_path), sub_it)
                          IN  << Write(FormatPath(sub_menu, act.text), act) >>
         IN  here \o BuildSubItems(full_path, sub_title, sub_items, j + 1)

(* the loop over items from position i on *)
BuildItems(full_path, items, i) ==
    IF i > Len(items) THEN <<>>
    ELSE LET it == items[i]
             here == IF Get(it, "separator", FALSE) THEN <<>>
                     ELSE IF "submenu" \in DOMAIN it
                     THEN LET sub_title == Get(it, "text", "Submenu")
                          IN  << Write(FormatPath(full_path, sub_title),
                                       QMenu(sub_title, full_path, TRUE)) >>
                              \o BuildSubItems(full_path, sub_title,
                                               Get(it, "submenu", <<>>), 1)
                     ELSE LET text == Get(it, "text", "Unnamed")
                          IN  << Write(FormatPath(full_path, text),
                                       ApplyActionProps(QAction(text, full_path), it)) >>
         IN  here \o BuildItems(full_path, items, i + 1)

(* parent_menu is <<>> for the menu bar, else the path of a menu; only the *)
(* menu bar gets the new menu added to it                                  *)
BuildMenu(parent_menu, title, items, prefix_path) ==
    LET full_path == IF prefix_path = <<>> THEN <<title>>
                     ELSE FormatPath(prefix_path, title)
    IN  << Write(full_path, QMenu(title, parent_menu, parent_menu = <<>>)) >>
        \o BuildItems(full_path, items, 1)

RECURSIVE BuildTop(_, _)
BuildTop(menu_spec, i) ==
    IF i > Len(menu_spec) THEN <<>>
    ELSE BuildMenu(<<>>, Get(menu_spec[i], "title", "Menu"),
                   Get(menu_spec[i], "items", <<>>), <<>>)
         \o BuildTop(menu_spec, i + 1)

(* the dict after the writes: each key holds the object written last *)
Registry(writes) ==
    [key \in {writes[n].key : n \in DOMAIN writes} |->
        CHOOSE n \in DOMAIN writes :
            /\ writes[n].key = key
            /\ \A k \in (n + 1)..Len(writes) : writes[k].key # key]

(* objects: what was created, in order; registry: key -> position in      *)
(* objects; spec: the menu spec it was built from                          *)
CreateMenu(menu_spec) ==
    LET writes == BuildTop(menu_spec, 1)
    IN  [state    |-> "built",
         spec     |-> menu_spec,
         objects  |-> [n \in DOMAIN writes |-> writes[n].obj],
         registry |-> Registry(writes),
         fired    |-> {},
         calls    |-> <<>>]

CreateMenuAction ==
    /\ menu.state = "none"
    /\ menu' = CreateMenu(MENU_SPEC)
    /\ last' = Handler("create_menu", TRUE)
    /\ UNCHANGED <<paneVars, paneReady, dialog, imageCanvas>>

(* the user picks an action of a shown menu; its connected slots run, and  *)
(* close() ends the window                                                 *)
TriggerAction ==
    /\ menu.state = "built"
    /\ \E n \in DOMAIN menu.objects :
           /\ menu.objects[n].kind = "action"
           /\ menu' = [menu EXCEPT
                           !.fired = @ \cup {n},
                           !.calls = menu.objects[n].slots,
                           !.state = IF \E k \in DOMAIN menu.objects[n].slots :
                                            menu.objects[n].slots[k] = "close"
                                     THEN "closed" ELSE @]
           /\ last' = [op |-> "triggered", acc |-> menu.objects[n].slots # <<>>,
                       action |-> n]
    /\ UNCHANGED <<paneVars, paneReady, dialog, imageCanvas>>

MenuNext == CreateMenuAction \/ TriggerAction

MenuSpec == Init /\ [][MenuNext]_vars

(* the items of a menu spec that become actions, each with its path *)
RECURSIVE SpecActions(_, _)
SpecActions(items, path) ==
    UNION { IF "separator" \in DOMAIN items[i] THEN {}
            ELSE IF "submenu" \in DOMAIN items[i]
            THEN SpecActions(items[i].submenu, FormatPath(path, items[i].text))
            ELSE { [path |-> FormatPath(path, items[i].text), item |-> items[i]] }
          : i \in DOMAIN items }

TargetInputs == {"on_about", "close", "on_open", "__module__", "menuBar2"}

(* C19: an item whose triggered value names no method of the main window   *)
(* (nothing of that name, or something that is not callable) still gets    *)
(* its action, created and registered under its path, create_menu runs to  *)
(* its end, and triggering the action calls no handler; an item naming an  *)
(* existing method is connected to exactly that method.                    *)
C19_MissingHandlerIgnored ==
    /\ \A target \in TargetInputs :
           ConnectTrigger(<<>>, Str(target)) =
               IF target \in {"on_about", "close"} THEN <<target>> ELSE <<>>
    /\ menu.state # "none" =>
           \A top \in DOMAIN MENU_SPEC :
               \A a \in SpecActions(MENU_SPEC[top].items, <<MENU_SPEC[top].title>>) :
                   /\ a.path \in DOMAIN menu.registry
                   /\ LET act == menu.objects[menu.registry[a.path]]
                      IN  /\ act.kind = "action"
                          /\ act.text = a.item.text
                          /\ act.slots = IF a.item.triggered \in {"on_about", "close"}
                                         THEN <<a.item.triggered>> ELSE <<>>
                          /\ (last.op = "triggered"
                                 /\ last.action = menu.registry[a.path]) =>
                                 menu.calls = act.slots
    /\ (menu.state # "none" /\ last.op = "triggered") =>
           \E key \in DOMAIN menu.registry : menu.registry[key] = last.action

(* File/Open, whose handler on_open does not exist, was just triggered *)
C19_Witness ==
    /\ menu.state = "built"
    /\ last.op = "triggered"
    /\ <<"File", "/", "Open">> \in DOMAIN menu.registry
    /\ last.action = menu.registry[<<"File", "/", "Open">>]
    /\ menu.calls = <<>>
    /\ menu.registry[<<"Help", "/", "About">>] \in menu.fired

----------------------------------------------------------------------------
(* C20: the move that puts the '+' page back does not re-enter the reorder *)
(* handler: a reorder by the user is handled once, with at most one        *)
(* corrective move; the tabMoved of a corrective move (flag set) changes   *)
(* nothing and moves nothing; and _adjusting_tab_order is false whenever   *)
(* no handler runs.                                                        *)
C20_NoReentry ==
    /\ ~adjusting
    /\ \A from \in 0..(Len(bar) - 1), to \in 0..(Len(bar) - 1) :
           /\ from # to =>
                  LET r == MoveTab(Self, from, to)
                      corrective == {k \in DOMAIN r.moves : r.moves[k].adjusting}
                  IN  /\ r.passes = 1
                      /\ r.moves[1] = [from |-> from, to |-> to, adjusting |-> FALSE]
                      /\ Cardinality(corrective) <= 1
                      /\ Len(r.moves) = 1 + Cardinality(corrective)
                      /\ ~r.adjusting
           /\ OnTabMoved([Self EXCEPT !.adjusting = TRUE], from, to)
                  = [Self EXCEPT !.adjusting = TRUE]
    /\ LET r == ConfigurePlusTab(AddTab(Self, NewCanvas(Self), FormatLabel(Base, 1)))
       IN  /\ r.passes = 0
           /\ Len(r.moves) = 1 /\ r.moves[1].adjusting
           /\ PlusIndex(r) = Count(r) - 1
           /\ ~r.adjusting

(* a reorder that took the '+' page off the end has run, the page is back  *)
(* at the end and the flag is down                                         *)
C20_Witness ==
    /\ last = Handler("move", TRUE)
    /\ Len(bar) >= 3
    /\ PlusIndex(Self) = Count(Self) - 1
    /\ ~adjusting

----------------------------------------------------------------------------
(***************************************************************************)
(* Closing among up to MaxTabs canvases: the pane with canvases added      *)
(* under their default labels, selected by a press, and closed.            *)
(***************************************************************************)
MaxTabs == 3

DocAddTab ==
    /\ paneReady
    /\ RealTabCount(Self) < MaxTabs
    /\ \E aspect \in AspectInputs :
           /\ Commit(AddNewCanvasTab(Self, <<>>, aspect))
           /\ last' = Handler("addNewCanvasTab", FALSE)
    /\ UNCHANGED <<paneReady, dialog, imageCanvas, menu>>

(* a press on a canvas tab *)
DocSelect ==
    /\ paneReady
    /\ \E idx \in 0..(Len(bar) - 1) :
           /\ ~IsPlusIndex(Self, idx)
           /\ Commit(MousePressEvent(Self, idx, NoDialog))
           /\ last' = Handler("press", FALSE)
    /\ UNCHANGED <<paneReady, dialog, imageCanvas, menu>>

DocNext ==
    \/ InitialTab
    \/ DocAddTab
    \/ DocSelect
    \/ CloseAction

DocSpec == Init /\ [][DocNext]_vars

(* C21: when a close request returns, on the normal path and on every      *)
(* early return, signals of the tab widget and of its tab bar are blocked  *)
(* exactly if they were blocked before the call; between handlers neither  *)
(* is blocked.                                                             *)
C21_CloseRestoresBlocking ==
    /\ ~blockedSelf /\ ~blockedTb
    /\ \A index \in Positions, bs \in BOOLEAN, bt \in BOOLEAN :
           LET r == OnClose([Self EXCEPT !.blockedSelf = bs, !.blockedTb = bt], index)
           IN  r.blockedSelf = bs /\ r.blockedTb = bt

(* a canvas was closed while two others stay *)
C21_Witness ==
    /\ last = Handler("close", TRUE)
    /\ RealTabCount(Self) = 2
    /\ ~blockedSelf /\ ~blockedTb

(* C22: one close request delivers at most one currentChanged, and that    *)
(* one when the canvas is gone and the '+' page is last again, for the     *)
(* position that is current at the end; the selection the tab bar picks    *)
(* during the removal is not delivered.                                    *)
C22_OneSettledNotification ==
    \A index \in Positions :
        LET r == OnClose(Self, index)
        IN  /\ Len(r.notes) <= 1
            /\ \A k \in DOMAIN r.notes :
                   /\ r.notes[k].count = Count(Self) - 1
                   /\ r.notes[k].plusLast
                   /\ ~r.notes[k].adjusting
                   /\ r.notes[k].index = r.barIndex
                   /\ r.notes[k].page = Widget(r, r.barIndex)

(* the last of two canvases was current and was closed: the tab bar picked *)
(* the '+' tab in between, listeners were told of the canvas left          *)
C22_Witness ==
    /\ last = Handler("close", TRUE)
    /\ Len(stack) = 2
    /\ Len(notes) = 1
    /\ notes[1].index = 0
    /\ notes[1].count = 2
    /\ IsImageCanvas(notes[1].page)

(* C23: when a close request ends with another canvas current than before, *)
(* a currentChanged carrying the final current position was delivered.     *)
C23_ChangeOfCurrentNotified ==
    \A index \in Positions :
        LET r == OnClose(Self, index)
        IN  (/\ IsImageCanvas(Widget(r, r.barIndex))
             /\ Widget(r, r.barIndex) # Widget(Self, barIndex)) =>
                /\ r.notes # <<>>
                /\ r.notes[Len(r.notes)].index = r.barIndex

(* C24: closing a canvas that is not the current one leaves the canvas     *)
(* that was current the current one.                                       *)
C24_CloseOtherKeepsCurrent ==
    \A index \in Positions :
        (/\ IsImageCanvas(Widget(Self, index))
         /\ IsImageCanvas(Widget(Self, barIndex))
         /\ index # barIndex) =>
            LET r == OnClose(Self, index)
            IN  Widget(r, r.barIndex) = Widget(Self, barIndex)

(* C25: closing a canvas removes that canvas and nothing else: one entry   *)
(* fewer, the other canvases in their order with their labels and ratios.  *)
C25_CloseRemovesExactlyOne ==
    \A index \in Positions :
        IsImageCanvas(Widget(Self, index)) =>
            LET r == OnClose(Self, index)
            IN  /\ RealTabCount(r) = RealTabCount(Self) - 1
                /\ r.stack = ListRemove(stack, index)
                /\ r.bar = ListRemove(bar, index)
                /\ DOMAIN r.canvases = DOMAIN canvases \ {Widget(Self, index)}
                /\ \A c \in DOMAIN r.canvases : r.canvases[c] = canvases[c]

(* the middle one of three canvases was closed *)
C25_Witness ==
    /\ last = Handler("close", TRUE)
    /\ RealTabCount(Self) = 2
    /\ TabText(Self, 0) = FormatLabel(Base, 1)
    /\ TabText(Self, 1) = FormatLabel(Base, 3)
    /\ canvases[Widget(Self, 1)] = <<16, 9>>

----------------------------------------------------------------------------
(* C26: between handlers, whenever a canvas exists the current entry is a  *)
(* canvas; the '+' page is current only when there is no canvas.           *)
C26_CurrentIsDocument ==
    /\ RealTabCount(Self) > 0 => IsImageCanvas(Widget(Self, barIndex))
    /\ Widget(Self, barIndex) = PLUS_PAGE => RealTabCount(Self) = 0
    /\ Widget(Self, stackIndex) = Widget(Self, barIndex)

(* the '+' tab was pressed and the dialog cancelled while two canvases     *)
(* exist: the second canvas is still the current entry                     *)
C26_Witness ==
    /\ last = Handler("press", FALSE)
    /\ clicks = 1
    /\ RealTabCount(Self) = 2
    /\ barIndex = 1
    /\ IsImageCanvas(Widget(Self, barIndex))

----------------------------------------------------------------------------
(* the labels of the canvases, wherever they stand in the strip *)
DocLabels(w) ==
    {TabText(w, i) : i \in {j \in 0..(Count(w) - 1) : IsImageCanvas(Widget(w, j))}}

(* C27: the default label for a new canvas is "Untitled n" for the         *)
(* smallest n >= 1 such that no canvas carries that label; it is the label *)
(* of no canvas.                                                           *)
C27_DefaultLabelSmallestFree ==
    /\ NextDefaultLabel(Self) \notin DocLabels(Self)
    /\ \E n \in 1..(RealTabCount(Self) + 1) :
           /\ NextDefaultLabel(Self) = FormatLabel(Base, n)
           /\ \A m \in 1..(n - 1) : FormatLabel(Base, m) \in DocLabels(Self)

(* "Untitled 1" was closed while "Untitled 2" stayed, and the canvas added *)
(* next got the label "Untitled 1" again                                   *)
C27_Witness ==
    /\ last.op = "addNewCanvasTab"
    /\ RealTabCount(Self) = 2
    /\ TabText(Self, 0) = FormatLabel(Base, 2)
    /\ TabText(Self, 1) = FormatLabel(Base, 1)
    /\ barIndex = 1

----------------------------------------------------------------------------
(***************************************************************************)
(* ImagePane: the aspect ratio wrappers, which act on the current canvas.  *)
(* canvases[c] is the _aspect of canvas c.                                 *)
(***************************************************************************)
CurrentWidget(w) == Widget(w, w.stackIndex)

(* currentCanvas taking the first tab's page whatever is current *)
CurrentCanvas_First(w) ==
    IF IsImageCanvas(Widget(w, 0)) THEN Widget(w, 0) ELSE -1

(* -1 stands for None *)
CurrentCanvas(w) ==
    IF IsImageCanvas(CurrentWidget(w)) THEN CurrentWidget(w) ELSE -1

SetCanvasAspectRatio(w, rw, rh) ==
    LET canvas == CurrentCanvas(w)
    IN  IF canvas # -1
        THEN [w EXCEPT !.canvases[canvas] = SetAspectRatio([aspect |-> @], rw, rh).aspect]
        ELSE w

PaneCycleAspectRatio(w) ==
    LET canvas == CurrentCanvas(w)
    IN  IF canvas # -1
        THEN [w EXCEPT !.canvases[canvas] = CycleAspectRatio([aspect |-> @]).aspect]
        ELSE w

PaneRatioArgs == {0, 2}

SetRatioAction ==
    /\ paneReady
    /\ \E rw \in PaneRatioArgs, rh \in PaneRatioArgs :
           /\ Commit(SetCanvasAspectRatio(Self, rw, rh))
           /\ last' = Handler("setCanvasAspectRatio", CurrentCanvas(Self) # -1)
    /\ UNCHANGED <<paneReady, dialog, imageCanvas, menu>>

CycleRatioAction ==
    /\ paneReady
    /\ Commit(PaneCycleAspectRatio(Self))
    /\ last' = Handler("ImagePane.cycleAspectRatio", CurrentCanvas(Self) # -1)
    /\ UNCHANGED <<paneReady, dialog, imageCanvas, menu>>

AspectNext ==
    \/ InitialTab
    \/ AddTabAction
    \/ DocSelect
    \/ CloseAction
    \/ SetRatioAction
    \/ CycleRatioAction

AspectSpec == Init /\ [][AspectNext]_vars

(* C28: setCanvasAspectRatio and cycleAspectRatio of the pane change the   *)
(* ratio of the current canvas and nothing else (the other ratios, the     *)
(* labels, the order and the current entry stay), and change nothing at    *)
(* all when the '+' page is the current entry.                             *)
C28_AspectOfCurrentOnly ==
    LET cur == Widget(Self, barIndex)
    IN  /\ \A rw \in RatioArgs, rh \in RatioArgs :
               SetCanvasAspectRatio(Self, rw, rh) =
                   IF IsImageCanvas(cur) /\ rw > 0 /\ rh > 0
                   THEN [Self EXCEPT !.canvases[cur] = <<rw, rh>>]
                   ELSE Self
        /\ PaneCycleAspectRatio(Self) =
               IF IsImageCanvas(cur)
               THEN [Self EXCEPT !.canvases[cur] = SuccessorOf(@)]
               ELSE Self

(* the pane cycled the ratio of the second canvas, the first keeps 16:9 *)
C28_Witness ==
    /\ last = Handler("ImagePane.cycleAspectRatio", TRUE)
    /\ RealTabCount(Self) = 2
    /\ barIndex = 1
    /\ canvases[Widget(Self, 1)] = <<3, 2>>
    /\ canvases[Widget(Self, 0)] = <<16, 9>>

----------------------------------------------------------------------------
(***************************************************************************)
(* create_menu on menu specs other than MENU_SPEC: submenus inside         *)
(* submenus, a menu without items, an empty spec.                          *)
(***************************************************************************)
NestedSpec ==
    << [title |-> "Help",
        items |-> << [text |-> "About", triggered |-> "on_about"],
                     [text |-> "More",
                      submenu |-> << [text |-> "Docs", triggered |-> "on_docs"],
                                     [text |-> "Legal",
                                      submenu |-> << [text |-> "License",
                                                      triggered |-> "on_about"] >>] >>] >>] >>

DeepSpec ==
    << [title |-> "View",
        items |-> << [text |-> "Panels",
                      submenu |-> << [text |-> "Side",
                                      submenu |-> << [text |-> "Left",
                                                      submenu |-> << [text |-> "Pin"] >>],
                                                     [separator |-> TRUE],
                                                     [text |-> "Hide",
                                                      triggered |-> "close"] >>] >>],
                     [text |-> "Zoom", triggered |-> "on_zoom"] >>],
       [title |-> "Window", items |-> << >>] >>

MenuSpecInputs == { << >>, MENU_SPEC, NestedSpec, DeepSpec }

BuildAny ==
    /\ menu.state = "none"
    /\ \E menu_spec \in MenuSpecInputs : menu' = CreateMenu(menu_spec)
    /\ last' = Handler("create_menu", TRUE)
    /\ UNCHANGED <<paneVars, paneReady, dialog, imageCanvas>>

MenuBuildNext == BuildAny \/ TriggerAction

MenuBuildSpec == Init /\ [][MenuBuildNext]_vars

(* every submenu and action under the menu at path, to any depth, with the *)
(* path made of the titles of all the menus around it and its own text     *)
RECURSIVE SpecEntries(_, _)
SpecEntries(items, path) ==
    UNION { IF "separator" \in DOMAIN items[i] THEN {}
            ELSE IF "submenu" \in DOMAIN items[i]
            THEN { [path |-> FormatPath(path, items[i].text), kind |-> "menu",
                    text |-> items[i].text] }
                 \cup SpecEntries(items[i].submenu, FormatPath(path, items[i].text))
            ELSE { [path |-> FormatPath(path, items[i].text), kind |-> "action",
                    text |-> items[i].text] }
          : i \in DOMAIN items }

(* C29: after create_menu, every menu, submenu and action of the spec, at  *)
(* whatever depth, is in the registry under the titles of all its          *)
(* enclosing menus from the top down and its own title or text, joined     *)
(* with "/".                                                               *)
C29_RegistryKeysFullPath ==
    menu.state # "none" =>
        \A top \in DOMAIN menu.spec :
            \A e \in { [path |-> <<menu.spec[top].title>>, kind |-> "menu",
                         text |-> menu.spec[top].title] }
                      \cup SpecEntries(menu.spec[top].items, <<menu.spec[top].title>>) :
                /\ e.path \in DOMAIN menu.registry
                /\ menu.objects[menu.registry[e.path]].kind = e.kind
                /\ menu.objects[menu.registry[e.path]].text = e.text

====
